---- MODULE Spec2Model ----
(***************************************************************************)
(* Access-control resolution, grant store and visibility cache of the      *)
(* SimpleCms file manager (backend/filemanager).                           *)
(*                                                                         *)
(* SpecAccess  : the resolver functions (can_access, is_valid,             *)
(*               has_permission, get_permission_list,                      *)
(*               get_effective_permissions,                                *)
(*               update_visibility_from_sharing) applied to bounded node   *)
(*               and grant-table states.                                   *)
(* Spec        : the request handlers and cleanup jobs, one request at a   *)
(*               time, on a small tree.                                    *)
(* SpecConc    : two request workers interleaving at the granularity of    *)
(*               database statements.                                      *)
(* SpecTree    : creation, upload, copy, move, rename, soft delete,        *)
(*               restore and permanent deletion of nodes.                  *)
(* SpecShare   : creation and copy under a directory whose sharing the     *)
(*               owner changes.                                            *)
(* SpecUpload  : two workers uploading with a relative path, at the        *)
(*               granularity of database statements.                       *)
(* SpecSubtree : recursive sharing and unsharing of a three-level tree     *)
(*               with soft deletion in between.                            *)
(* SpecCleanup : the expiry sweep and the retention purge, batch by batch, *)
(*               with a crash in the middle of a run.                      *)
(* SpecRecompute : two workers writing grants of one node, with the        *)
(*               visibility recompute split into its read and its write.   *)
(* SpecMove    : moves between directories and to the root.                *)
(***************************************************************************)
EXTENDS Integers, Sequences, FiniteSets, TLC

VARIABLES
    files,      \* FileItem table: id -> row
    perms,      \* FileAccessPermission table: set of rows
    now,        \* timezone.now()
    storage,    \* FileStorage table: the uuids of the stored files
    last,       \* the last call and what it returned
    workers     \* SpecConc: the request each worker is serving and its position

vars == <<files, perms, now, storage, last, workers>>

---------------------------------------------------------------------------
(* Bounds *)

\* timezone.now() ranges up to MaxTime
MaxTime == 2

\* The grant table holds at most this many rows
MaxGrants == 2

---------------------------------------------------------------------------
(* Values *)

\* Python None / SQL NULL for user, group
None == "none"

\* expires_at = NULL
NoExpiry == -1

\* parent = NULL (a root item)
NoParent == 0

\* storage = NULL (a directory)
NoStorage == 0

\* deleted_at = NULL
NotDeleted == -1

Times == 0..MaxTime

\* request.user of a request without credentials (AnonymousUser)
Anonymous == "anon"

\* auth.User rows
Users == {"root", "alice", "bob", "carol"}

Principals == Users \cup {Anonymous}

\* auth.Group rows
Groups == {"g1", "g2"}

is_authenticated(user) == user # Anonymous

is_superuser(user) == user = "root"

\* user.groups.all()
user_groups(user) ==
    CASE user = "bob"   -> {"g1", "g2"}
      [] user = "carol" -> {"g1"}
      [] OTHER          -> {}

PERMISSION_TYPES == {"read", "write", "delete", "share", "admin"}

PERMISSION_PRIORITY(permission_type) ==
    CASE permission_type = "read"   -> 1
      [] permission_type = "write"  -> 2
      [] permission_type = "delete" -> 3
      [] permission_type = "share"  -> 4
      [] permission_type = "admin"  -> 5
      [] OTHER                      -> 1

VISIBILITY_CHOICES == {"private", "user", "group", "public"}

\* A FileItem row
FileItem(item_type, parent, owner, visibility, shared_users, shared_groups) ==
    [name |-> "", item_type |-> item_type, parent |-> parent, storage |-> NoStorage,
     owner |-> owner, visibility |-> visibility,
     is_deleted |-> FALSE, deleted_at |-> NotDeleted, deleted_by |-> None,
     shared_users |-> shared_users, shared_groups |-> shared_groups]

\* A FileAccessPermission row as FileAccessPermission.save() writes it:
\* priority is set from the permission type
FileAccessPermission(id, file, user, group, permission_type, expires_at, is_active) ==
    [id |-> id, file |-> file, user |-> user, group |-> group,
     permission_type |-> permission_type, expires_at |-> expires_at,
     is_active |-> is_active, priority |-> PERMISSION_PRIORITY(permission_type)]

\* What a call returned
Call(op, actor, file, target, ptype, ok, existed, listed) ==
    [op |-> op, actor |-> actor, file |-> file, target |-> target,
     ptype |-> ptype, ok |-> ok, existed |-> existed, listed |-> listed]

NoCall == Call("none", None, NoParent, None, None, FALSE, FALSE, {})

---------------------------------------------------------------------------
(* FileAccessPermission methods *)

is_valid_expired_at_now(permission, current_time) ==
    /\ permission.is_active
    /\ (permission.expires_at = NoExpiry \/ permission.expires_at > current_time)

is_valid(permission, current_time) ==
    IF ~permission.is_active THEN FALSE
    ELSE IF permission.expires_at # NoExpiry /\ current_time > permission.expires_at
         THEN FALSE
         ELSE TRUE

has_permission_share_writes(permission, permission_type, current_time) ==
    IF ~is_valid(permission, current_time) THEN FALSE
    ELSE IF permission.permission_type = "admin" THEN TRUE
    ELSE IF permission.permission_type = permission_type THEN TRUE
    ELSE IF permission_type = "read"
            /\ permission.permission_type \in {"write", "delete", "share"} THEN TRUE
    ELSE IF permission_type = "write"
            /\ permission.permission_type \in {"delete", "share"} THEN TRUE
    ELSE FALSE

has_permission(permission, permission_type, current_time) ==
    IF ~is_valid(permission, current_time) THEN FALSE
    ELSE IF permission.permission_type = "admin" THEN TRUE
    ELSE IF permission.permission_type = permission_type THEN TRUE
    ELSE IF permission_type = "read"
            /\ permission.permission_type \in {"write", "delete", "share"} THEN TRUE
    ELSE IF permission_type = "write"
            /\ permission.permission_type \in {"delete"} THEN TRUE
    ELSE FALSE

get_permission_list(permission) ==
    CASE permission.permission_type = "admin"  -> {"read", "write", "delete", "share", "admin"}
      [] permission.permission_type = "delete" -> {"read", "write", "delete"}
      [] permission.permission_type = "write"  -> {"read", "write"}
      [] permission.permission_type = "share"  -> {"read", "share"}
      [] permission.permission_type = "read"   -> {"read"}
      [] OTHER                                 -> {}

---------------------------------------------------------------------------
(* FileItem methods.  A query that returns a row or None is modelled as a  *)
(* set holding at most one row.  order_by('-priority').first() leaves the  *)
(* choice among rows of equal priority to the database, so the selectors  *)
(* give the set of results the query can return.                          *)

\* order_by('-priority').first() on a non-empty queryset
first_by_priority(rows) ==
    {{p} : p \in {q \in rows : \A r \in rows : r.priority <= q.priority}}

get_user_permission(ps, f, user) ==
    LET user_permissions ==
            {p \in ps : p.file = f /\ p.user = user /\ p.group = None /\ p.is_active}
    IN  IF user_permissions # {} THEN first_by_priority(user_permissions) ELSE {{}}

get_group_permission(ps, f, user) ==
    IF user_groups(user) = {} THEN {{}}
    ELSE LET group_permissions ==
                 {p \in ps : p.file = f /\ p.group \in user_groups(user)
                             /\ p.user = None /\ p.is_active}
         IN  IF group_permissions # {} THEN first_by_priority(group_permissions) ELSE {{}}

\* can_access once the two selectors have returned user_permission and
\* group_permission
can_access_no_login_check(item, user_permission, group_permission, current_time, user, permission_type) ==
    IF is_superuser(user) THEN TRUE
    ELSE IF item.owner = user THEN TRUE
    ELSE IF \E p \in user_permission : has_permission(p, permission_type, current_time) THEN TRUE
    ELSE IF \E p \in group_permission : has_permission(p, permission_type, current_time) THEN TRUE
    ELSE IF item.visibility = "public" THEN TRUE
    ELSE IF item.visibility = "user" THEN user \in item.shared_users
    ELSE IF item.visibility = "group" THEN user_groups(user) \cap item.shared_groups # {}
    ELSE FALSE

can_access_public_read_only(item, user_permission, group_permission, current_time, user, permission_type) ==
    IF ~is_authenticated(user) THEN FALSE
    ELSE IF is_superuser(user) THEN TRUE
    ELSE IF item.owner = user THEN TRUE
    ELSE IF \E p \in user_permission : has_permission(p, permission_type, current_time) THEN TRUE
    ELSE IF \E p \in group_permission : has_permission(p, permission_type, current_time) THEN TRUE
    ELSE IF item.visibility = "public" THEN permission_type = "read"
    ELSE IF item.visibility = "user" THEN user \in item.shared_users
    ELSE IF item.visibility = "group" THEN user_groups(user) \cap item.shared_groups # {}
    ELSE FALSE

can_access_with(item, user_permission, group_permission, current_time, user, permission_type) ==
    IF ~is_authenticated(user) THEN FALSE
    ELSE IF is_superuser(user) THEN TRUE
    ELSE IF item.owner = user THEN TRUE
    ELSE IF \E p \in user_permission : has_permission(p, permission_type, current_time) THEN TRUE
    ELSE IF \E p \in group_permission : has_permission(p, permission_type, current_time) THEN TRUE
    ELSE IF item.visibility = "public" THEN TRUE
    ELSE IF item.visibility = "user" THEN user \in item.shared_users
    ELSE IF item.visibility = "group" THEN user_groups(user) \cap item.shared_groups # {}
    ELSE FALSE

\* The values can_access(user, permission_type) can return on item f
can_access(fs, ps, current_time, f, user, permission_type) ==
    {can_access_with(fs[f], up, gp, current_time, user, permission_type) :
        up \in get_user_permission(ps, f, user),
        gp \in get_group_permission(ps, f, user)}

\* The values can_share(user) can return
can_share(fs, ps, current_time, f, user) == can_access(fs, ps, current_time, f, user, "share")

\* The values can_write(user) can return
can_write(fs, ps, current_time, f, user) == can_access(fs, ps, current_time, f, user, "write")

get_effective_permissions_with(item, user_permission, group_permission, user) ==
    IF is_superuser(user) THEN {"read", "write", "delete", "share", "admin"}
    ELSE IF item.owner = user THEN {"read", "write", "delete", "share", "admin"}
    ELSE UNION {get_permission_list(p) : p \in user_permission}
         \cup UNION {get_permission_list(p) : p \in group_permission}

\* The values get_effective_permissions(user) can return on item f
get_effective_permissions(fs, ps, f, user) ==
    {get_effective_permissions_with(fs[f], up, gp, user) :
        up \in get_user_permission(ps, f, user),
        gp \in get_group_permission(ps, f, user)}

update_visibility_public_not_kept(fs, ps, f) ==
    LET has_user_permissions  == \E p \in ps : p.file = f /\ p.user # None /\ p.is_active
        has_group_permissions == \E p \in ps : p.file = f /\ p.group # None /\ p.is_active
        has_shared_users      == fs[f].shared_users # {}
        has_shared_groups     == fs[f].shared_groups # {}
        visibility ==
            IF has_user_permissions \/ has_shared_users THEN "user"
            ELSE IF has_group_permissions \/ has_shared_groups THEN "group"
            ELSE "private"
    IN  [fs EXCEPT ![f].visibility = visibility]

\* The FileItem table after f.update_visibility_from_sharing()
update_visibility_from_sharing(fs, ps, f) ==
    LET has_user_permissions  == \E p \in ps : p.file = f /\ p.user # None /\ p.is_active
        has_group_permissions == \E p \in ps : p.file = f /\ p.group # None /\ p.is_active
        has_shared_users      == fs[f].shared_users # {}
        has_shared_groups     == fs[f].shared_groups # {}
        visibility ==
            IF fs[f].visibility = "public" THEN "public"
            ELSE IF has_user_permissions \/ has_shared_users THEN "user"
            ELSE IF has_group_permissions \/ has_shared_groups THEN "group"
            ELSE "private"
    IN  [fs EXCEPT ![f].visibility = visibility]

---------------------------------------------------------------------------
(* SpecAccess: the resolver applied to bounded node and grant-table states. *)
(* Each state drawn by InitAccess is asked one question, or has its         *)
(* visibility recomputed (any number of times in a row).                    *)

\* The item the resolver is asked about
Probe == 1

\* Primary key of the grant of permission_type to a user or group
PkOf(target, permission_type) ==
    PERMISSION_PRIORITY(permission_type)
    + (CASE target = "g1" -> 5 [] target = "g2" -> 10 [] OTHER -> 0)

\* States of a stored grant: active without expiry, active with an expiry,
\* deactivated
GrantStates == {<<TRUE, NoExpiry>>, <<TRUE, 1>>, <<FALSE, NoExpiry>>}

AccessRows ==
    {FileAccessPermission(PkOf("bob", t), Probe, "bob", None, t, s[2], s[1]) :
        t \in PERMISSION_TYPES, s \in GrantStates}
    \cup
    {FileAccessPermission(PkOf("g1", "read"), Probe, None, "g1", "read", s[2], s[1]) :
        s \in GrantStates}
    \cup
    {FileAccessPermission(PkOf("g2", "write"), Probe, None, "g2", "write", s[2], s[1]) :
        s \in GrantStates}

\* Grant tables of at most n rows that satisfy unique_together
RECURSIVE TablesUpTo(_)
TablesUpTo(n) ==
    IF n = 0 THEN {{}}
    ELSE LET smaller == TablesUpTo(n - 1)
         IN  smaller \cup
             UNION {{S \cup {p} : p \in {q \in AccessRows : \A r \in S : r.id # q.id}} :
                    S \in smaller}

AccessTables == TablesUpTo(MaxGrants)

InitAccess ==
    /\ \E v \in VISIBILITY_CHOICES, su \in SUBSET {"bob"}, sg \in SUBSET {"g2"} :
           files = (Probe :> FileItem("file", NoParent, "alice", v, su, sg))
    /\ perms \in AccessTables
    /\ now \in Times
    /\ last = NoCall
    /\ storage = {}
    /\ workers = <<>>

\* file_item.can_access(user, permission_type)
CallCanAccess(user, permission_type) ==
    /\ last = NoCall
    /\ \E result \in can_access(files, perms, now, Probe, user, permission_type) :
           last' = Call("can_access", user, Probe, None, permission_type, result, FALSE, {})
    /\ UNCHANGED <<files, perms, now, storage, workers>>

\* file_item.get_effective_permissions(user), as the item serializer calls it
CallEffectivePermissions(user) ==
    /\ last = NoCall
    /\ \E result \in get_effective_permissions(files, perms, Probe, user) :
           last' = Call("get_effective_permissions", user, Probe, None, None, TRUE, FALSE, result)
    /\ UNCHANGED <<files, perms, now, storage, workers>>

\* file_item.update_visibility_from_sharing()
CallUpdateVisibility ==
    /\ last.op \in {"none", "update_visibility_from_sharing"}
    /\ files' = update_visibility_from_sharing(files, perms, Probe)
    /\ last' = Call("update_visibility_from_sharing", None, Probe, None, None, TRUE, FALSE, {})
    /\ UNCHANGED <<perms, now, storage, workers>>

NextAccess ==
    \/ \E user \in Principals \ {"carol"}, t \in PERMISSION_TYPES : CallCanAccess(user, t)
    \/ \E user \in Users \ {"carol"} : CallEffectivePermissions(user)
    \/ CallUpdateVisibility

SpecAccess == InitAccess /\ [][NextAccess]_vars

---------------------------------------------------------------------------
(* The database and the request handlers *)

\* FileItem.objects: the default manager hides soft-deleted rows
objects(fs) == {f \in DOMAIN fs : ~fs[f].is_deleted}

get_children(fs, f) ==
    IF fs[f].item_type = "directory"
    THEN {c \in objects(fs) : fs[c].parent = f}
    ELSE {}

\* The directory itself and everything below it
RECURSIVE get_recursive_items(_, _)
get_recursive_items(fs, directory) ==
    {directory} \cup UNION {get_recursive_items(fs, c) : c \in get_children(fs, directory)}

\* FileItemViewSet.get_queryset(): the rows get_object() and the listings
\* can return to user
get_queryset(fs, ps, user) ==
    IF ~is_authenticated(user) THEN {}
    ELSE IF is_superuser(user) THEN objects(fs)
    ELSE {f \in objects(fs) :
            \/ fs[f].owner = user
            \/ fs[f].visibility = "public"
            \/ (fs[f].visibility = "user" /\ user \in fs[f].shared_users)
            \/ (fs[f].visibility = "group" /\ fs[f].shared_groups \cap user_groups(user) # {})
            \/ \E p \in ps : p.file = f /\ p.user = user /\ p.is_active
            \/ \E p \in ps : p.file = f /\ p.group \in user_groups(user) /\ p.is_active}

\* The primary key the database gives the next FileAccessPermission row
NewId(ps) == CHOOSE i \in 1..(Cardinality(ps) + 1) : \A p \in ps : p.id # i

unique_together_not_enforced(ps, row) == FALSE

\* Meta.unique_together of FileAccessPermission: writing row would leave two
\* rows with the same (file, user, permission_type) or the same (file, group,
\* permission_type); a NULL user or group never collides
violates_unique_together(ps, row) ==
    \E p \in ps :
        /\ p.id # row.id
        /\ p.file = row.file
        /\ p.permission_type = row.permission_type
        /\ \/ (row.user # None /\ p.user = row.user)
           \/ (row.group # None /\ p.group = row.group)

\* post_save receiver of FileAccessPermission.  Its cleanup slices the
\* queryset ([:batch_size]) before calling delete(), which Django refuses
\* ("Cannot use 'limit' or 'offset' with delete"); the handler catches the
\* exception and logs it, so no row is removed.
handle_permission_cleanup(ps) == ps

\* permission.save() of a row that passes unique_together: the row is written
\* with its priority, the file's visibility is recomputed, post_save runs
save(db, row) ==
    LET written == {p \in db.perms : p.id # row.id}
                   \cup {[row EXCEPT !.priority = PERMISSION_PRIORITY(row.permission_type)]}
    IN  [files |-> update_visibility_from_sharing(db.files, written, row.file),
         perms |-> handle_permission_cleanup(written)]

\* FileAccessPermissionCreateSerializer.validate
validate(user, group) ==
    /\ ~(user # None /\ group # None)
    /\ ~(user = None /\ group = None)

\* The rows share_recursively looks up before it writes one grant
existing_permission(ps, item, user, group, permission_type) ==
    {p \in ps : p.file = item /\ p.user = user /\ p.group = group
                /\ p.permission_type = permission_type}

\* One pass of the inner loop of share_recursively: the grant of
\* permission_type on item is reactivated if a row exists and created
\* otherwise
share_item(db, item, user, group, permission_type, expires_at) ==
    LET existing == existing_permission(db.perms, item, user, group, permission_type)
    IN  IF existing # {}
        THEN LET p == CHOOSE q \in existing : TRUE
             IN  save(db, [p EXCEPT !.expires_at = expires_at, !.is_active = TRUE])
        ELSE save(db, FileAccessPermission(NewId(db.perms), item, user, group,
                                           permission_type, expires_at, TRUE))

\* The loops of share_recursively over the items and the permission types
RECURSIVE share_items(_, _, _, _, _)
share_items(db, todo, user, group, expires_at) ==
    IF todo = {} THEN db
    ELSE LET job  == CHOOSE j \in todo : TRUE
             done == CHOOSE d \in {share_item(db, job[1], user, group, job[2], expires_at)} : TRUE
         IN  share_items(done, todo \ {job}, user, group, expires_at)

\* The loops of unshare_recursively: every matching active grant is saved
\* with is_active = False
RECURSIVE unshare_items(_, _)
unshare_items(db, todo) ==
    IF todo = {} THEN db
    ELSE LET id   == CHOOSE i \in todo : TRUE
             p    == CHOOSE q \in db.perms : q.id = id
             done == CHOOSE d \in {save(db, [p EXCEPT !.is_active = FALSE])} : TRUE
         IN  unshare_items(done, todo \ {id})

\* FileAccessPermissionViewSet.get_queryset(): the grants a user may address
permission_queryset(fs, ps, user) ==
    {p \in ps :
        /\ p.is_active
        /\ \/ is_superuser(user)
           \/ fs[p.file].owner = user
           \/ \E q \in ps : q.file = p.file /\ q.user = user /\ q.permission_type = "admin"}

---------------------------------------------------------------------------
(* Spec: one request at a time on a directory that holds one file *)

\* The users who send requests
Actors == {"alice", "bob"}

\* The grantees the requests name: a user or a group
Targets == {<<"bob", None>>, <<None, "g1">>}

\* The permission types the requests name for a user and for a group
GrantTypes(user) == IF user # None THEN {"share"} ELSE {"read"}

\* The expires_at values the requests name
ExpiryChoices == {NoExpiry, 1}

\* The (visibility, shared_users, shared_groups) the visibility requests name
VisibilityRequests ==
    {<<"private", {}, {}>>, <<"public", {}, {}>>, <<"group", {"carol"}, {}>>}

\* What a request leaves in last: the operation and whether it was carried out
Done(op, ok) == [NoCall EXCEPT !.op = op, !.ok = ok]

Init ==
    /\ files = (1 :> FileItem("directory", NoParent, "alice", "private", {}, {})
                @@ 2 :> FileItem("file", 1, "alice", "private", {}, {}))
    /\ perms = {}
    /\ now = 1
    /\ last = NoCall
    /\ storage = {}
    /\ workers = <<>>

\* POST /permissions/ : FileAccessPermissionViewSet.create
create_permission(actor, f, user, group, permission_type, expires_at) ==
    LET row == FileAccessPermission(NewId(perms), f, user, group, permission_type,
                                    expires_at, TRUE)
        accepted == /\ f \in objects(files)
                    /\ validate(user, group)
                    /\ ~violates_unique_together(perms, row)
    IN  \E db \in {save([files |-> files, perms |-> perms], row)} :
        /\ Cardinality(perms) < MaxGrants \/ ~accepted
        /\ files' = IF accepted THEN db.files ELSE files
        /\ perms' = IF accepted THEN db.perms ELSE perms
        /\ last' = Done("create_permission", accepted)
        /\ UNCHANGED <<now, storage, workers>>

\* PATCH /permissions/{id}/ with is_active = false
revoke_permission(actor, p) ==
    /\ p \in permission_queryset(files, perms, actor)
    /\ \E db \in {save([files |-> files, perms |-> perms], [p EXCEPT !.is_active = FALSE])} :
           /\ files' = db.files
           /\ perms' = db.perms
    /\ last' = Done("revoke_permission", TRUE)
    /\ UNCHANGED <<now, storage, workers>>

\* DELETE /permissions/{id}/ : FileAccessPermission.delete
destroy_permission(actor, p) ==
    /\ p \in permission_queryset(files, perms, actor)
    /\ perms' = perms \ {p}
    /\ files' = update_visibility_from_sharing(files, perms \ {p}, p.file)
    /\ last' = Done("destroy_permission", TRUE)
    /\ UNCHANGED <<now, storage, workers>>

\* POST /files/{id}/share_recursively/ while the grant table holds at most
\* limit rows
share_recursively_within(limit, actor, f, user, group, permission_types, expires_at) ==
    /\ f \in get_queryset(files, perms, actor)
    /\ files[f].item_type = "directory"
    /\ \E allowed \in can_share(files, perms, now, f, actor) :
           LET all_items == get_recursive_items(files, f)
           IN  \E db \in {IF allowed
                           THEN share_items([files |-> files, perms |-> perms],
                                            all_items \X permission_types,
                                            user, group, expires_at)
                           ELSE [files |-> files, perms |-> perms]} :
               /\ ~allowed \/ Cardinality(db.perms) <= limit
               /\ files' = IF allowed THEN db.files ELSE files
               /\ perms' = IF allowed THEN db.perms ELSE perms
               /\ last' = Done("share_recursively", allowed)
    /\ UNCHANGED <<now, storage, workers>>

\* POST /files/{id}/share_recursively/
share_recursively(actor, f, user, group, permission_types, expires_at) ==
    share_recursively_within(MaxGrants, actor, f, user, group, permission_types, expires_at)

\* POST /files/{id}/unshare_recursively/ ; permission_types = {} revokes
\* every type
unshare_recursively(actor, f, user, group, permission_types) ==
    /\ f \in get_queryset(files, perms, actor)
    /\ files[f].item_type = "directory"
    /\ \E allowed \in can_share(files, perms, now, f, actor) :
           LET all_items == get_recursive_items(files, f)
               permissions_to_revoke ==
                   {p \in perms :
                       /\ p.file \in all_items
                       /\ p.is_active
                       /\ p.user = user /\ p.group = group
                       /\ permission_types # {} => p.permission_type \in permission_types}
           IN  \E db \in {IF allowed
                           THEN unshare_items([files |-> files, perms |-> perms],
                                              {p.id : p \in permissions_to_revoke})
                           ELSE [files |-> files, perms |-> perms]} :
               /\ files' = IF allowed THEN db.files ELSE files
               /\ perms' = IF allowed THEN db.perms ELSE perms
               /\ last' = Done("unshare_recursively", allowed)
    /\ UNCHANGED <<now, storage, workers>>

\* PUT /files/{id}/update_visibility/
update_visibility(actor, f, visibility, shared_users, shared_groups) ==
    /\ f \in get_queryset(files, perms, actor)
    /\ \E allowed \in can_write(files, perms, now, f, actor) :
           LET saved == [files EXCEPT ![f].visibility = visibility,
                                      ![f].shared_users = shared_users,
                                      ![f].shared_groups = shared_groups]
           IN  /\ files' = IF allowed
                           THEN update_visibility_from_sharing(saved, perms, f)
                           ELSE files
               /\ last' = Done("update_visibility", allowed)
    /\ UNCHANGED <<perms, now, storage, workers>>

\* The expiry sweep: tasks.cleanup_expired_permissions and the
\* cleanup_expired_permissions / cleanup_permissions commands
cleanup_expired_permissions ==
    LET expired_permissions ==
            {p \in perms : p.is_active /\ p.expires_at # NoExpiry /\ p.expires_at < now}
    IN  /\ perms' = {IF p \in expired_permissions THEN [p EXCEPT !.is_active = FALSE] ELSE p :
                       p \in perms}
        /\ last' = Done("cleanup_expired_permissions", TRUE)
        /\ UNCHANGED <<files, now, storage, workers>>

\* Time passes
Tick ==
    /\ now < MaxTime
    /\ now' = now + 1
    /\ last' = NoCall
    /\ UNCHANGED <<files, perms, storage, workers>>

Next ==
    \/ \E actor \in Actors, f \in DOMAIN files, target \in Targets, e \in ExpiryChoices :
          \E t \in GrantTypes(target[1]) :
             create_permission(actor, f, target[1], target[2], t, e)
    \/ \E actor \in Actors, p \in perms : revoke_permission(actor, p)
    \/ \E actor \in Actors, p \in perms : destroy_permission(actor, p)
    \/ \E actor \in Actors, f \in DOMAIN files, target \in Targets, e \in ExpiryChoices :
          \E ts \in (SUBSET GrantTypes(target[1])) \ {{}} :
             share_recursively(actor, f, target[1], target[2], ts, e)
    \/ \E actor \in Actors, f \in DOMAIN files, target \in Targets :
          \E ts \in SUBSET GrantTypes(target[1]) :
             unshare_recursively(actor, f, target[1], target[2], ts)
    \/ \E actor \in Actors, f \in DOMAIN files, r \in VisibilityRequests :
          update_visibility(actor, f, r[1], r[2], r[3])
    \/ cleanup_expired_permissions
    \/ Tick

Spec == Init /\ [][Next]_vars

---------------------------------------------------------------------------
(* SpecConc: two server workers handle grant requests statement by statement *)

\* The server processes that handle requests at the same time
Workers == {"w1", "w2"}

\* What a worker holds of its request: the handler, the statement it is at,
\* the (item, permission_type) grants still to write, the grantee, and the
\* row its lookup has read
Request(op, pc, todo, user, group, found) ==
    [op |-> op, pc |-> pc, todo |-> todo, user |-> user, group |-> group, found |-> found]

Idle == Request("idle", "idle", <<>>, None, None, {})

\* all_items of share_recursively as the list the loop walks: the directory
\* first, then what is below it
RECURSIVE items_in_order(_)
items_in_order(items) ==
    IF items = {} THEN <<>>
    ELSE LET first == CHOOSE i \in items : \A j \in items : i <= j
         IN  <<first>> \o items_in_order(items \ {first})

\* The permission_types list of the request body
RECURSIVE types_in_order(_)
types_in_order(permission_types) ==
    IF permission_types = {} THEN <<>>
    ELSE LET first == CHOOSE t \in permission_types : TRUE
         IN  <<first>> \o types_in_order(permission_types \ {first})

\* The nested loops of share_recursively, unrolled
RECURSIVE jobs_of(_, _)
jobs_of(items, types) ==
    IF items = <<>> THEN <<>>
    ELSE [k \in 1..Len(types) |-> <<Head(items), types[k]>>] \o jobs_of(Tail(items), types)

\* The grants left after the grant at the head of todo; an exception leaves
\* the loop over the permission types of the item
remaining(todo, raised) ==
    IF raised
    THEN SelectSeq(Tail(todo), LAMBDA job : job[1] # Head(todo)[1])
    ELSE Tail(todo)

\* serializer.is_valid() of FileAccessPermissionCreateSerializer: validate()
\* and the unique-together validators the ModelSerializer derives from Meta,
\* which read the table
is_valid_serializer(ps, f, user, group, permission_type) ==
    /\ f \in DOMAIN ps.files
    /\ validate(user, group)
    /\ ~\E p \in ps.perms :
           /\ p.file = f
           /\ p.permission_type = permission_type
           /\ \/ (user # None /\ p.user = user)
              \/ (group # None /\ p.group = group)

InitConc ==
    /\ files = (1 :> FileItem("directory", NoParent, "alice", "private", {}, {})
                @@ 2 :> FileItem("file", 1, "alice", "private", {}, {}))
    /\ perms = {}
    /\ now = 1
    /\ last = NoCall
    /\ storage = {}
    /\ workers = [w \in Workers |-> Idle]

\* A worker receives POST /permissions/
BeginCreatePermission(w, f, user, group, permission_type) ==
    /\ workers[w] = Idle
    /\ workers' = [workers EXCEPT ![w] =
                       Request("create_permission", "validate", <<<<f, permission_type>>>>,
                               user, group, {})]
    /\ UNCHANGED <<files, perms, now, storage, last>>

\* A worker receives POST /files/{id}/share_recursively/ and passes the checks
\* that precede the loop
BeginShareRecursively(w, actor, f, user, group, permission_types) ==
    /\ workers[w] = Idle
    /\ f \in get_queryset(files, perms, actor)
    /\ files[f].item_type = "directory"
    /\ TRUE \in can_share(files, perms, now, f, actor)
    /\ workers' = [workers EXCEPT ![w] =
                       Request("share_recursively", "lookup",
                               jobs_of(items_in_order(get_recursive_items(files, f)),
                                       types_in_order(permission_types)),
                               user, group, {})]
    /\ UNCHANGED <<files, perms, now, storage, last>>

\* The worker goes on to the next grant of its request, or answers
Proceed(w, rest, ok) ==
    IF rest = <<>>
    THEN /\ workers' = [workers EXCEPT ![w] = Idle]
         /\ last' = Done(workers[w].op, ok)
    ELSE /\ workers' = [workers EXCEPT ![w] =
                            Request(workers[w].op, "lookup", rest,
                                    workers[w].user, workers[w].group, {})]
         /\ UNCHANGED last

\* share_recursively: FileAccessPermission.objects.filter(...).first()
LookupExisting(w) ==
    LET r == workers[w]
        existing == existing_permission(perms, Head(r.todo)[1], r.user, r.group, Head(r.todo)[2])
    IN  /\ r.pc = "lookup"
        /\ IF existing = {}
           THEN workers' = [workers EXCEPT ![w].pc = "validate"]
           ELSE \E p \in existing :
                    workers' = [workers EXCEPT ![w].pc = "update", ![w].found = {p}]
        /\ UNCHANGED <<files, perms, now, storage, last>>

\* serializer.is_valid(): a request the validators refuse writes nothing
ValidateSerializer(w) ==
    LET r == workers[w]
    IN  /\ r.pc = "validate"
        /\ IF is_valid_serializer([files |-> files, perms |-> perms], Head(r.todo)[1],
                                  r.user, r.group, Head(r.todo)[2])
           THEN /\ workers' = [workers EXCEPT ![w].pc = "insert"]
                /\ UNCHANGED last
           ELSE Proceed(w, remaining(r.todo, FALSE), FALSE)
        /\ UNCHANGED <<files, perms, now, storage>>

\* serializer.save(): the INSERT, which the unique constraints of the table
\* refuse with an IntegrityError, and what save() does after it
InsertPermission(w) ==
    LET r == workers[w]
        row == FileAccessPermission(NewId(perms), Head(r.todo)[1], r.user, r.group,
                                    Head(r.todo)[2], NoExpiry, TRUE)
    IN  /\ r.pc = "insert"
        /\ IF violates_unique_together(perms, row)
           THEN /\ Proceed(w, remaining(r.todo, TRUE), FALSE)
                /\ UNCHANGED <<files, perms>>
           ELSE /\ Cardinality(perms) < MaxGrants
                /\ \E db \in {save([files |-> files, perms |-> perms], row)} :
                       /\ files' = db.files
                       /\ perms' = db.perms
                /\ Proceed(w, remaining(r.todo, FALSE), TRUE)
        /\ UNCHANGED <<now, storage>>

\* existing_permission.save() of share_recursively: the row read by the
\* lookup is written back with the new expiry and is_active = True
UpdateExisting(w) ==
    LET r == workers[w]
    IN  /\ r.pc = "update"
        /\ \E p \in r.found :
               \E db \in {save([files |-> files, perms |-> perms],
                                [p EXCEPT !.expires_at = NoExpiry, !.is_active = TRUE])} :
                   /\ files' = db.files
                   /\ perms' = db.perms
        /\ Proceed(w, remaining(r.todo, FALSE), TRUE)
        /\ UNCHANGED <<now, storage>>

NextConc ==
    \/ \E w \in Workers, f \in DOMAIN files, target \in Targets :
          \E t \in GrantTypes(target[1]) :
             BeginCreatePermission(w, f, target[1], target[2], t)
    \/ \E w \in Workers, f \in DOMAIN files, target \in Targets :
          \E ts \in (SUBSET GrantTypes(target[1])) \ {{}} :
             BeginShareRecursively(w, "alice", f, target[1], target[2], ts)
    \/ \E w \in Workers : LookupExisting(w)
    \/ \E w \in Workers : ValidateSerializer(w)
    \/ \E w \in Workers : InsertPermission(w)
    \/ \E w \in Workers : UpdateExisting(w)
    \/ \E p \in perms : revoke_permission("alice", p)

SpecConc == InitConc /\ [][NextConc]_vars

---------------------------------------------------------------------------
(* The tree: creation, copy, move, rename, deletion and restore *)

\* The FileItem table holds at most this many rows
MaxNodes == 3

\* FileItem.objects.with_deleted()
with_deleted(fs) == DOMAIN fs

\* FileItem.objects.deleted_only()
deleted_only(fs) == {f \in DOMAIN fs : fs[f].is_deleted}

\* The primary key of the next FileItem row
NewNode(fs) == CHOOSE i \in 1..(Cardinality(DOMAIN fs) + 1) : i \notin DOMAIN fs

\* The uuid of the next FileStorage row
NewStorage(st) == CHOOSE i \in 1..(Cardinality(st) + 1) : i \notin st

clean_without_check(fs, id, row) == TRUE

\* FileItem.clean() passes: no other non-deleted row has the name, parent,
\* item type and owner of row
clean(fs, id, row) ==
    ~\E g \in objects(fs) :
        /\ g # id
        /\ fs[g].name = row.name
        /\ fs[g].parent = row.parent
        /\ fs[g].item_type = row.item_type
        /\ fs[g].owner = row.owner

\* utils.determine_file_sharing: <<visibility, shared_users, shared_groups>>
\* of a node user creates under parent_directory (NoParent at the root)
determine_file_sharing(fs, ps, parent_directory, requested_visibility, requested_shared_users, requested_shared_groups, user) ==
    LET parent == fs[parent_directory]
        inherited ==
            CASE parent.visibility = "user"   -> <<"user", parent.shared_users, {}>>
              [] parent.visibility = "group"  -> <<"group", {}, parent.shared_groups>>
              [] parent.visibility = "public" -> <<"public", {}, {}>>
              [] OTHER                        -> <<"private", {}, {}>>
        user_permissions ==
            {p \in ps : p.file = parent_directory /\ p.user = user /\ p.is_active
                        /\ p.permission_type # "read"}
    IN  IF requested_visibility # "private"
        THEN <<requested_visibility, requested_shared_users, requested_shared_groups>>
        ELSE IF parent_directory = NoParent
        THEN <<"private", {}, {}>>
        ELSE IF parent.owner # user /\ parent.visibility # "private"
        THEN inherited
        ELSE IF user_permissions # {}
        THEN inherited
        ELSE <<"private", {}, {}>>

\* The row the creating views write: FileItem.objects.create(...) followed by
\* shared_users.set / shared_groups.set, which the views call only for a
\* non-empty set that fits the visibility
created_item(name, item_type, parent, st, owner, sharing) ==
    [FileItem(item_type, parent, owner, sharing[1],
              IF sharing[1] = "user" THEN sharing[2] ELSE {},
              IF sharing[1] = "group" THEN sharing[3] ELSE {})
     EXCEPT !.name = name, !.storage = st]

\* POST /files/create_directory/
create_directory(actor, name, parent_id, visibility) ==
    LET f == NewNode(files)
        sharing == determine_file_sharing(files, perms, parent_id, visibility, {}, {}, actor)
        row == created_item(name, "directory", parent_id, NoStorage, actor, sharing)
        found == parent_id = NoParent
                 \/ (parent_id \in objects(files) /\ files[parent_id].item_type = "directory")
        exists == \E g \in objects(files) :
                      /\ files[g].parent = parent_id
                      /\ files[g].name = name
                      /\ files[g].item_type = "directory"
    IN  /\ Cardinality(DOMAIN files) < MaxNodes
        /\ \E allowed \in IF ~found THEN {FALSE}
                            ELSE IF parent_id = NoParent THEN {TRUE}
                            ELSE can_write(files, perms, now, parent_id, actor) :
               LET ok == allowed /\ ~exists /\ clean(files, f, row)
               IN  /\ files' = IF ok THEN (f :> row) @@ files ELSE files
                   /\ last' = Done("create_directory", ok)
        /\ UNCHANGED <<perms, now, storage, workers>>

\* POST /upload/ without a relative path: the file is stored, then the row
\* is created; a row that clean() refuses leaves the stored file behind
upload(actor, name, parent_id, visibility) ==
    LET f == NewNode(files)
        st == NewStorage(storage)
        sharing == determine_file_sharing(files, perms, parent_id, visibility, {}, {}, actor)
        row == created_item(name, "file", parent_id, st, actor, sharing)
        found == parent_id = NoParent
                 \/ (parent_id \in objects(files) /\ files[parent_id].item_type = "directory")
    IN  /\ Cardinality(DOMAIN files) < MaxNodes
        /\ Cardinality(storage) < MaxNodes
        /\ \E allowed \in IF ~found THEN {FALSE}
                            ELSE IF parent_id = NoParent THEN {TRUE}
                            ELSE can_write(files, perms, now, parent_id, actor) :
               LET ok == allowed /\ clean(files, f, row)
               IN  /\ files' = IF ok THEN (f :> row) @@ files ELSE files
                   /\ storage' = IF allowed THEN storage \cup {st} ELSE storage
                   /\ last' = Done("upload", ok)
        /\ UNCHANGED <<perms, now, workers>>

\* FileOperationView._generate_unique_name / _generate_unique_name_root for a
\* name without extension: the first of name, "name (1)", "name (2)", ... that
\* no non-deleted row of the destination has
RECURSIVE generate_unique_name(_, _, _, _)
generate_unique_name(fs, original_name, destination_dir, counter) ==
    LET new_name == IF counter = 0 THEN original_name
                    ELSE original_name \o " (" \o ToString(counter) \o ")"
    IN  IF \E g \in objects(fs) : fs[g].parent = destination_dir /\ fs[g].name = new_name
        THEN generate_unique_name(fs, original_name, destination_dir, counter + 1)
        ELSE new_name

\* The checks copy and move make on the destination: it is the root, or a
\* non-deleted directory the user can write to
destination_allowed(fs, ps, current_time, destination_id, user) ==
    IF destination_id = NoParent THEN {TRUE}
    ELSE IF destination_id \notin objects(fs) \/ fs[destination_id].item_type # "directory"
    THEN {FALSE}
    ELSE can_access(fs, ps, current_time, destination_id, user, "write")

copied_item_without_shared_sets(file_item, new_name, destination_id, st, user) ==
    created_item(new_name, file_item.item_type, destination_id, st, user,
                 <<file_item.visibility, {}, {}>>)

\* The row _copy_file writes: FileItem.objects.create(...) with the source's
\* visibility and the user as owner, then shared_users.set / shared_groups.set
\* from the source
copied_item(file_item, new_name, destination_id, st, user) ==
    [created_item(new_name, file_item.item_type, destination_id, st, user,
                  <<file_item.visibility, {}, {}>>)
     EXCEPT !.shared_users = file_item.shared_users,
            !.shared_groups = file_item.shared_groups]

\* POST /operations/ with operation = copy
copy(actor, f, destination_id) ==
    LET new == NewNode(files)
        st == NewStorage(storage)
        is_file == files[f].item_type = "file"
        new_name == generate_unique_name(files, files[f].name, destination_id, 0)
        row == copied_item(files[f], new_name, destination_id,
                           IF is_file THEN st ELSE NoStorage, actor)
    IN  /\ f \in with_deleted(files)
        /\ Cardinality(DOMAIN files) < MaxNodes
        /\ Cardinality(storage) < MaxNodes
        /\ \E readable \in can_access(files, perms, now, f, actor, "read"),
              writable \in destination_allowed(files, perms, now, destination_id, actor) :
               LET ok == /\ readable
                         /\ ~files[f].is_deleted
                         /\ writable
                         /\ is_file => files[f].storage \in storage
                         /\ clean(files, new, row)
               IN  /\ files' = IF ok THEN (new :> row) @@ files ELSE files
                   /\ storage' = IF ok /\ is_file THEN storage \cup {st} ELSE storage
                   /\ last' = Done("copy", ok)
        /\ UNCHANGED <<perms, now, workers>>

\* POST /operations/ with operation = move
move(actor, f, destination_id) ==
    LET new_name == generate_unique_name(files, files[f].name, destination_id, 0)
        row == [files[f] EXCEPT !.name = new_name, !.parent = destination_id]
    IN  /\ f \in with_deleted(files)
        /\ \E readable \in can_access(files, perms, now, f, actor, "read"),
              writable \in destination_allowed(files, perms, now, destination_id, actor),
              deletable \in IF destination_id = NoParent THEN {TRUE}
                            ELSE can_access(files, perms, now, f, actor, "delete") :
               LET ok == /\ readable
                         /\ ~files[f].is_deleted
                         /\ writable
                         /\ deletable
                         /\ files[f].item_type = "file" => files[f].storage # NoStorage
                         /\ clean(files, f, row)
               IN  /\ files' = IF ok THEN [files EXCEPT ![f] = row] ELSE files
                   /\ last' = Done("move", ok)
        /\ UNCHANGED <<perms, now, storage, workers>>

\* PATCH /files/{id}/ with a name: FileItemViewSet.perform_update
rename(actor, f, name) ==
    LET row == [files[f] EXCEPT !.name = name]
    IN  /\ f \in get_queryset(files, perms, actor)
        /\ \E writable \in can_write(files, perms, now, f, actor) :
               LET ok == writable /\ clean(files, f, row)
               IN  /\ files' = IF ok THEN [files EXCEPT ![f] = row] ELSE files
                   /\ last' = Done("rename", ok)
        /\ UNCHANGED <<perms, now, storage, workers>>

\* FileItem.soft_delete(user), before save()
soft_deleted(item, current_time, user) ==
    [item EXCEPT !.is_deleted = TRUE, !.deleted_at = current_time, !.deleted_by = user]

restored_keeps_deleted_by(item) == [item EXCEPT !.is_deleted = FALSE, !.deleted_at = NotDeleted]

\* FileItem.restore(), before save()
restored(item) ==
    [item EXCEPT !.is_deleted = FALSE, !.deleted_at = NotDeleted, !.deleted_by = None]

\* POST /operations/ with operation = delete: FileItem.soft_delete
soft_delete(actor, f) ==
    LET row == soft_deleted(files[f], now, actor)
    IN  /\ f \in with_deleted(files)
        /\ \E deletable \in can_access(files, perms, now, f, actor, "delete") :
               LET ok == deletable /\ ~files[f].is_deleted /\ clean(files, f, row)
               IN  /\ files' = IF ok THEN [files EXCEPT ![f] = row] ELSE files
                   /\ last' = Done("soft_delete", ok)
        /\ UNCHANGED <<perms, now, storage, workers>>

\* POST /deleted-files/restore/ : FileItem.restore
restore(actor, f) ==
    LET row == restored(files[f])
    IN  /\ f \in deleted_only(files)
        /\ \E writable \in can_access(files, perms, now, f, actor, "write") :
               LET ok == writable /\ clean(files, f, row)
               IN  /\ files' = IF ok THEN [files EXCEPT ![f] = row] ELSE files
                   /\ last' = Done("restore", ok)
        /\ UNCHANGED <<perms, now, storage, workers>>

\* The rows below f, deleted or not: what on_delete=CASCADE of
\* FileItem.parent reaches
RECURSIVE cascade(_, _)
cascade(fs, f) ==
    {f} \cup UNION {cascade(fs, c) : c \in {g \in DOMAIN fs : fs[g].parent = f}}

\* Model.delete() of the FileItem rows in doomed: the rows below them and the
\* grants of all these rows go with them (FileAccessPermission.file is
\* on_delete=CASCADE); FileStorage rows are not referenced from that side and
\* stay
delete_rows(db, doomed) ==
    LET gone == UNION {cascade(db.files, f) : f \in doomed \cap DOMAIN db.files}
    IN  [files   |-> [g \in DOMAIN db.files \ gone |-> db.files[g]],
         perms   |-> {p \in db.perms : p.file \notin gone},
         storage |-> db.storage]

\* FileItem.hard_delete() on the database db
RECURSIVE hard_delete_item(_, _)
RECURSIVE hard_delete_children(_, _)
hard_delete_children(db, todo) ==
    IF todo = {} THEN db
    ELSE LET child == CHOOSE c \in todo : TRUE
             done  == CHOOSE d \in {hard_delete_item(db, child)} : TRUE
         IN  hard_delete_children(done, todo \ {child})

hard_delete_item(db, f) ==
    IF f \notin DOMAIN db.files THEN db
    ELSE IF db.files[f].item_type = "file" /\ db.files[f].storage # NoStorage
    THEN \* storage.delete() takes the row along: FileItem.storage is
         \* on_delete=CASCADE
         LET st == db.files[f].storage
             released == [db EXCEPT !.storage = db.storage \ {st}]
         IN  delete_rows(released, {g \in DOMAIN db.files : db.files[g].storage = st} \cup {f})
    ELSE IF db.files[f].item_type = "directory"
    THEN LET done == CHOOSE d \in {hard_delete_children(db, get_children(db.files, f))} : TRUE
         IN  delete_rows(done, {f})
    ELSE delete_rows(db, {f})

\* POST /deleted-files/hard-delete/
hard_delete(actor, f) ==
    /\ f \in deleted_only(files)
    /\ \E deletable \in can_access(files, perms, now, f, actor, "delete") :
           \E db \in {IF deletable
                       THEN hard_delete_item([files |-> files, perms |-> perms,
                                              storage |-> storage], f)
                       ELSE [files |-> files, perms |-> perms, storage |-> storage]} :
               /\ files' = db.files
               /\ perms' = db.perms
               /\ storage' = db.storage
               /\ last' = Done("hard_delete", deletable)
    /\ UNCHANGED <<now, workers>>

\* DELETE /files/{id}/ : FileItemViewSet.perform_destroy
destroy(actor, f) ==
    /\ f \in get_queryset(files, perms, actor)
    /\ \E deletable \in can_access(files, perms, now, f, actor, "delete") :
           \E db \in {IF deletable
                       THEN delete_rows([files |-> files, perms |-> perms,
                                         storage |-> storage], {f})
                       ELSE [files |-> files, perms |-> perms, storage |-> storage]} :
               /\ files' = db.files
               /\ perms' = db.perms
               /\ last' = Done("destroy", deletable)
    /\ UNCHANGED <<now, storage, workers>>

---------------------------------------------------------------------------
(* SpecTree: one request at a time on a tree that grows from one directory *)

\* The names the requests give
Names == {"a"}

\* The names a row can have: a given name, or the first name generated from it
AllNames == Names \cup {generate_unique_name((1 :> [name |-> n, parent |-> NoParent,
                                                      is_deleted |-> FALSE]),
                                             n, NoParent, 0) : n \in Names}

\* alice owns directory 1; bob holds a delete grant on it, which lets him
\* write in it and delete it
InitTree ==
    /\ files = (1 :> [FileItem("directory", NoParent, "alice", "user", {}, {})
                      EXCEPT !.name = "a"])
    /\ perms = {FileAccessPermission(1, 1, "bob", None, "delete", NoExpiry, TRUE)}
    /\ now = 1
    /\ storage = {}
    /\ last = NoCall
    /\ workers = <<>>

NextTree ==
    \/ \E name \in Names, parent_id \in {NoParent, 1} :
          create_directory("alice", name, parent_id, "private")
    \/ \E actor \in Actors, name \in Names :
          upload(actor, name, 1, "private")
    \/ \E f \in DOMAIN files :
          /\ generate_unique_name(files, files[f].name, 1, 0) \in AllNames
          /\ copy("alice", f, 1)
    \/ \E f \in DOMAIN files, destination_id \in {NoParent, 1} :
          /\ destination_id \notin cascade(files, f)
          /\ generate_unique_name(files, files[f].name, destination_id, 0) \in AllNames
          /\ move("alice", f, destination_id)
    \/ \E f \in DOMAIN files, name \in Names : rename("alice", f, name)
    \/ \E f \in DOMAIN files : soft_delete("alice", f)
    \/ \E f \in DOMAIN files : restore("alice", f)
    \/ \E f \in DOMAIN files : hard_delete("alice", f)
    \/ \E f \in DOMAIN files : destroy("alice", f)

SpecTree == InitTree /\ [][NextTree]_vars

---------------------------------------------------------------------------
(* SpecShare: creation and copy under a directory whose sharing changes *)

\* The (visibility, shared_users, shared_groups) the owner sets on a node
ShareRequests ==
    {<<"private", {}, {}>>, <<"user", {"carol"}, {}>>, <<"group", {}, {"g1"}>>,
     <<"public", {}, {}>>}

\* The grantees and permission types of the grants the owner creates
ShareGrants == {<<"bob", None, "write">>, <<None, "g1", "read">>}

InitShare ==
    /\ files = (1 :> [FileItem("directory", NoParent, "alice", "private", {}, {})
                      EXCEPT !.name = "d"]
                @@ 2 :> [FileItem("file", 1, "alice", "private", {}, {})
                         EXCEPT !.name = "f", !.storage = 1])
    /\ perms = {}
    /\ now = 1
    /\ storage = {1}
    /\ last = NoCall
    /\ workers = <<>>

NextShare ==
    \/ \E f \in {1, 2}, r \in ShareRequests :
          update_visibility("alice", f, r[1], r[2], r[3])
    \/ \E f \in {1, 2}, g \in ShareGrants :
          create_permission("alice", f, g[1], g[2], g[3], NoExpiry)
    \/ \E actor \in Actors, name \in Names : create_directory(actor, name, 1, "private")
    \/ \E actor \in Actors, name \in Names : upload(actor, name, 1, "private")
    \/ \E actor \in Actors, destination_id \in {NoParent, 1} : copy(actor, 2, destination_id)

SpecShare == InitShare /\ [][NextShare]_vars

---------------------------------------------------------------------------
(* SpecUpload: two server workers handle uploads with a relative path,     *)
(* statement by statement                                                  *)

\* What a worker holds of its upload: the statement it is at, request.user,
\* the parent directory and relative path of the request, the path parts
\* still to walk, current_parent, the name of the uploaded file and the
\* exception that ended the request
Upload(pc, user, parent, path, todo, current_parent, name, error) ==
    [pc |-> pc, user |-> user, parent |-> parent, path |-> path, todo |-> todo,
     current_parent |-> current_parent, name |-> name, error |-> error]

NoUpload == Upload("idle", None, NoParent, <<>>, <<>>, NoParent, "", "")

\* The relative paths and the file names the uploads name
Paths == {<<"a">>, <<"a", "b">>}

FileNames == {"f", "g"}

\* FileItem.objects.filter(name=part, parent=current_parent,
\* item_type='directory', owner=user, is_deleted=False)
directories_named(fs, part, current_parent, user) ==
    {g \in objects(fs) :
        /\ fs[g].name = part
        /\ fs[g].parent = current_parent
        /\ fs[g].item_type = "directory"
        /\ fs[g].owner = user}

\* The loop of _get_or_create_directory_path_safe goes on from directory d:
\* to the next path part, or to the rest of the upload
next_part(r, d) ==
    [r EXCEPT !.pc = IF Tail(r.todo) = <<>> THEN "store" ELSE "get",
              !.todo = Tail(r.todo),
              !.current_parent = d]

\* The request ends in the outer except of FileUploadView.create
failed_with(r, error) == [r EXCEPT !.pc = "failed", !.error = error]

InitUpload ==
    /\ files = (1 :> [FileItem("directory", NoParent, "alice", "private", {}, {})
                      EXCEPT !.name = "d"])
    /\ perms = {}
    /\ now = 1
    /\ storage = {}
    /\ last = NoCall
    /\ workers = [w \in Workers |-> NoUpload]

\* A worker receives POST /upload/ with a relative path and checks the parent
BeginUpload(w, actor, name, parent_id, relative_path) ==
    LET found == parent_id = NoParent
                 \/ (parent_id \in objects(files) /\ files[parent_id].item_type = "directory")
    IN  /\ workers[w] = NoUpload
        /\ \E allowed \in IF ~found THEN {FALSE}
                            ELSE IF parent_id = NoParent THEN {TRUE}
                            ELSE can_write(files, perms, now, parent_id, actor) :
               workers' = [workers EXCEPT ![w] =
                               IF allowed
                               THEN Upload("get", actor, parent_id, relative_path,
                                           relative_path, parent_id, name, "")
                               ELSE Upload("failed", actor, parent_id, relative_path,
                                           relative_path, parent_id, name, "PermissionDenied")]
        /\ UNCHANGED <<files, perms, now, storage, last>>

\* FileItem.objects.get(...) of the path part: one row, DoesNotExist (the
\* directory is then created) or MultipleObjectsReturned, which nothing catches
GetDirectory(w) ==
    LET r == workers[w]
        rows == directories_named(files, Head(r.todo), r.current_parent, r.user)
    IN  /\ r.pc = "get"
        /\ workers' = [workers EXCEPT ![w] =
                           IF rows = {} THEN [r EXCEPT !.pc = "clean"]
                           ELSE IF Cardinality(rows) = 1
                           THEN next_part(r, CHOOSE d \in rows : TRUE)
                           ELSE failed_with(r, "MultipleObjectsReturned")]
        /\ UNCHANGED <<files, perms, now, storage, last>>

\* FileItem.objects.create(...): save() runs clean(), which reads the table;
\* its ValidationError is caught and the directory is read again
CleanDirectory(w) ==
    LET r == workers[w]
        row == created_item(Head(r.todo), "directory", r.current_parent, NoStorage, r.user,
                            <<"private", {}, {}>>)
    IN  /\ r.pc = "clean"
        /\ workers' = [workers EXCEPT ![w].pc =
                           IF clean(files, NewNode(files), row) THEN "insert" ELSE "get_again"]
        /\ UNCHANGED <<files, perms, now, storage, last>>

\* FileItem.objects.create(...): the INSERT. The table has no unique
\* constraint, so the database refuses no row and no IntegrityError is raised
InsertDirectory(w) ==
    LET r == workers[w]
        d == NewNode(files)
        row == created_item(Head(r.todo), "directory", r.current_parent, NoStorage, r.user,
                            <<"private", {}, {}>>)
    IN  /\ r.pc = "insert"
        /\ files' = (d :> row) @@ files
        /\ workers' = [workers EXCEPT ![w] = next_part(r, d)]
        /\ UNCHANGED <<perms, now, storage, last>>

\* FileItem.objects.get(...) in the except clause
GetAgain(w) ==
    LET r == workers[w]
        rows == directories_named(files, Head(r.todo), r.current_parent, r.user)
    IN  /\ r.pc = "get_again"
        /\ workers' = [workers EXCEPT ![w] =
                           IF rows = {} THEN failed_with(r, "DoesNotExist")
                           ELSE IF Cardinality(rows) = 1
                           THEN next_part(r, CHOOSE d \in rows : TRUE)
                           ELSE failed_with(r, "MultipleObjectsReturned")]
        /\ UNCHANGED <<files, perms, now, storage, last>>

\* The rest of FileUploadView.create: the file is stored and its row is
\* created in the directory the path ends in
StoreFile(w) ==
    LET r == workers[w]
        f == NewNode(files)
        st == NewStorage(storage)
        sharing == determine_file_sharing(files, perms, r.current_parent, "private", {}, {},
                                          r.user)
        row == created_item(r.name, "file", r.current_parent, st, r.user, sharing)
        ok == clean(files, f, row)
    IN  /\ r.pc = "store"
        /\ storage' = storage \cup {st}
        /\ files' = IF ok THEN (f :> row) @@ files ELSE files
        /\ workers' = [workers EXCEPT ![w] =
                           IF ok THEN [r EXCEPT !.pc = "done"] ELSE failed_with(r, "ValidationError")]
        /\ last' = Done("upload", ok)
        /\ UNCHANGED <<perms, now>>

NextUpload ==
    \/ \E w \in Workers, actor \in Actors, name \in FileNames, parent_id \in {NoParent, 1},
          relative_path \in Paths :
          BeginUpload(w, actor, name, parent_id, relative_path)
    \/ \E w \in Workers : GetDirectory(w)
    \/ \E w \in Workers : CleanDirectory(w)
    \/ \E w \in Workers : InsertDirectory(w)
    \/ \E w \in Workers : GetAgain(w)
    \/ \E w \in Workers : StoreFile(w)

SpecUpload == InitUpload /\ [][NextUpload]_vars

---------------------------------------------------------------------------
(* SpecSubtree: recursive sharing and unsharing of a directory that holds  *)
(* a subdirectory with a file; the subdirectory is soft-deleted and         *)
(* restored                                                                *)

\* The grant table of SpecSubtree holds at most this many rows
MaxSubtreeGrants == 4

\* The grantees and the permission_types lists the recursive requests name
SubtreeTargets == {<<"bob", None, {"share"}>>, <<None, "g1", {"read"}>>}

\* The permission_types lists of unshare_recursively; the empty list stands
\* for every type
UnshareTypes == {{}, {"read"}}

InitSubtree ==
    /\ files = (1 :> [FileItem("directory", NoParent, "alice", "private", {}, {})
                      EXCEPT !.name = "d"]
                @@ 2 :> [FileItem("directory", 1, "alice", "private", {}, {})
                         EXCEPT !.name = "s"]
                @@ 3 :> [FileItem("file", 2, "alice", "private", {}, {})
                         EXCEPT !.name = "f", !.storage = 1])
    /\ perms = {}
    /\ now = 1
    /\ storage = {1}
    /\ last = NoCall
    /\ workers = <<>>

NextSubtree ==
    \/ \E actor \in Actors, f \in DOMAIN files, target \in SubtreeTargets :
          share_recursively_within(MaxSubtreeGrants, actor, f, target[1], target[2],
                                   target[3], NoExpiry)
    \/ \E actor \in Actors, f \in DOMAIN files, target \in SubtreeTargets, ts \in UnshareTypes :
          unshare_recursively(actor, f, target[1], target[2], ts)
    \/ soft_delete("alice", 2)
    \/ restore("alice", 2)

SpecSubtree == InitSubtree /\ [][NextSubtree]_vars

---------------------------------------------------------------------------
(* SpecCleanup: the expiry sweep and the purge of old inactive grants, run *)
(* page by page inside their transaction, on bounded grant tables          *)

\* The grant table of SpecCleanup holds at most this many rows
MaxCleanupRows == 3

\* --batch-size / batch_size, in rows
BatchSize == 1

\* --days / days: the retention window, in ticks of now
RetentionDays == 1

\* A grant row with its granted_at column (auto_now_add). deactivated_at is
\* no column of the table: it records when is_active was last set to False
\* (None while the grant is active), for the properties only
GrantRow(id, granted_at, expires_at, is_active, deactivated_at) ==
    [id |-> id, file |-> ((id - 1) % 2) + 1,
     user |-> IF id <= 2 THEN "bob" ELSE "carol", group |-> None,
     permission_type |-> "read", expires_at |-> expires_at, is_active |-> is_active,
     priority |-> PERMISSION_PRIORITY("read"),
     granted_at |-> granted_at, deactivated_at |-> deactivated_at]

\* The states a row granted before time 2 can be in at time 1
GrantRowStates(id) ==
    {GrantRow(id, g, e, TRUE, None) : g \in 0..1, e \in {NoExpiry, 1}}
    \cup UNION {{GrantRow(id, g, e, FALSE, d) : d \in g..1} : g \in 0..1, e \in {NoExpiry, 1}}

RECURSIVE CleanupTablesUpTo(_)
CleanupTablesUpTo(n) ==
    IF n = 0 THEN {{}}
    ELSE LET smaller == CleanupTablesUpTo(n - 1)
         IN  smaller \cup {t \cup {r} : t \in smaller, r \in GrantRowStates(n)}

\* What a cleanup job holds: which job runs, the table as its open
\* transaction sees it, the current_time or cutoff_date it computed, and the
\* pages it has processed
Job(op, tx, time, pages) == [op |-> op, tx |-> tx, time |-> time, pages |-> pages]

NoJob == Job("idle", {}, 0, 0)

\* FileAccessPermission.objects.filter(is_active=True, expires_at__isnull=False,
\* expires_at__lt=current_time)
expired_permissions(ps, current_time) ==
    {p \in ps : p.is_active /\ p.expires_at # NoExpiry /\ p.expires_at < current_time}

\* FileAccessPermission.objects.filter(is_active=False, granted_at__lt=cutoff_date)
old_permissions(ps, cutoff_date) ==
    {p \in ps : ~p.is_active /\ p.granted_at < cutoff_date}

\* list(queryset[:batch_size]): the pages the database may return
batches(rows) ==
    {b \in SUBSET rows : Cardinality(b) = IF Cardinality(rows) < BatchSize
                                          THEN Cardinality(rows) ELSE BatchSize}

InitCleanup ==
    /\ files = (1 :> FileItem("directory", NoParent, "alice", "user", {}, {})
                @@ 2 :> FileItem("file", 1, "alice", "user", {}, {}))
    /\ perms \in CleanupTablesUpTo(MaxCleanupRows)
    /\ now = 1
    /\ storage = {}
    /\ last = NoCall
    /\ workers = NoJob

\* manage.py cleanup_expired_permissions --force: up to the opening of the
\* transaction
BeginSweep ==
    /\ workers = NoJob
    /\ IF expired_permissions(perms, now) = {}
       THEN /\ last' = Done("sweep", TRUE)
            /\ UNCHANGED workers
       ELSE /\ workers' = Job("sweep", perms, now, 0)
            /\ UNCHANGED last
    /\ UNCHANGED <<files, perms, now, storage>>

\* One pass of the while loop of the sweep: a page is deactivated with
\* QuerySet.update(); after the last page the loop ends and the transaction
\* commits
SweepPage ==
    LET expired == expired_permissions(workers.tx, workers.time)
    IN  /\ workers.op = "sweep"
        /\ IF expired = {}
           THEN /\ perms' = workers.tx
                /\ workers' = NoJob
                /\ last' = Done("sweep", TRUE)
           ELSE /\ \E batch \in batches(expired) :
                       workers' = [workers EXCEPT
                           !.tx = {IF p \in batch
                                   THEN [p EXCEPT !.is_active = FALSE, !.deactivated_at = now]
                                   ELSE p : p \in workers.tx},
                           !.pages = workers.pages + 1]
                /\ UNCHANGED <<perms, last>>
        /\ UNCHANGED <<files, now, storage>>

\* tasks.cleanup_old_inactive_permissions and manage.py cleanup_permissions:
\* up to the opening of the transaction
BeginPurge ==
    /\ workers = NoJob
    /\ IF old_permissions(perms, now - RetentionDays) = {}
       THEN /\ last' = Done("purge", TRUE)
            /\ UNCHANGED workers
       ELSE /\ workers' = Job("purge", perms, now - RetentionDays, 0)
            /\ UNCHANGED last
    /\ UNCHANGED <<files, perms, now, storage>>

\* One pass of the while loop of the purge: a page is deleted with
\* QuerySet.delete(); after the last page the transaction commits
PurgePage ==
    LET old == old_permissions(workers.tx, workers.time)
    IN  /\ workers.op = "purge"
        /\ IF old = {}
           THEN /\ perms' = workers.tx
                /\ workers' = NoJob
                /\ last' = Done("purge", TRUE)
           ELSE /\ \E batch \in batches(old) :
                       workers' = [workers EXCEPT !.tx = workers.tx \ batch,
                                                  !.pages = workers.pages + 1]
                /\ UNCHANGED <<perms, last>>
        /\ UNCHANGED <<files, now, storage>>

\* The job fails or is killed inside the loop: the exception leaves
\* transaction.atomic(), which rolls the transaction back
Crash ==
    /\ workers.op # "idle"
    /\ workers' = NoJob
    /\ last' = Done(workers.op, FALSE)
    /\ UNCHANGED <<files, perms, now, storage>>

\* Time passes between two jobs
TickCleanup ==
    /\ workers = NoJob
    /\ now < MaxTime
    /\ now' = now + 1
    /\ last' = NoCall
    /\ UNCHANGED <<files, perms, storage, workers>>

NextCleanup ==
    \/ BeginSweep
    \/ SweepPage
    \/ BeginPurge
    \/ PurgePage
    \/ Crash
    \/ TickCleanup

SpecCleanup == InitCleanup /\ [][NextCleanup]_vars

---------------------------------------------------------------------------
(* SpecRecompute: two server workers write grants of the same items; the   *)
(* row write, the queries of update_visibility_from_sharing and its        *)
(* save(update_fields=['visibility']) are separate database statements     *)

\* What a worker holds between the statements of FileAccessPermission.save():
\* the request, the statement it is at, the file of the grant and the
\* visibility it is about to store
GrantWrite(op, pc, file, visibility) ==
    [op |-> op, pc |-> pc, file |-> file, visibility |-> visibility]

NoGrantWrite == GrantWrite("idle", "idle", NoParent, "private")

InitRecompute ==
    /\ files = (1 :> FileItem("directory", NoParent, "alice", "private", {}, {})
                @@ 2 :> FileItem("file", 1, "alice", "private", {}, {}))
    /\ perms = {}
    /\ now = 1
    /\ storage = {}
    /\ last = NoCall
    /\ workers = [w \in Workers |-> NoGrantWrite]

\* POST /permissions/ up to super().save(): the serializer validates and the
\* row is inserted
InsertGrant(w, f, user, group, permission_type) ==
    LET row == FileAccessPermission(NewId(perms), f, user, group, permission_type,
                                    NoExpiry, TRUE)
        accepted == /\ f \in objects(files)
                    /\ validate(user, group)
                    /\ ~violates_unique_together(perms, row)
    IN  /\ workers[w] = NoGrantWrite
        /\ Cardinality(perms) < MaxGrants \/ ~accepted
        /\ IF accepted
           THEN /\ perms' = perms \cup {row}
                /\ workers' = [workers EXCEPT ![w] =
                                   GrantWrite("create_permission", "recompute", f, "private")]
                /\ UNCHANGED last
           ELSE /\ last' = Done("create_permission", FALSE)
                /\ UNCHANGED <<perms, workers>>
        /\ UNCHANGED <<files, now, storage>>

\* PATCH /permissions/{id}/ with is_active = false up to super().save(): the
\* row is updated
DeactivateGrant(w, actor, p) ==
    /\ workers[w] = NoGrantWrite
    /\ p \in permission_queryset(files, perms, actor)
    /\ perms' = (perms \ {p}) \cup {[p EXCEPT !.is_active = FALSE]}
    /\ workers' = [workers EXCEPT ![w] =
                       GrantWrite("revoke_permission", "recompute", p.file, "private")]
    /\ UNCHANGED <<files, now, storage, last>>

\* update_visibility_from_sharing up to its save(): the file row and the
\* grants are read and the visibility is decided; a visibility that is the
\* stored one is not written
ReadSharing(w) ==
    LET r == workers[w]
        visibility == update_visibility_from_sharing(files, perms, r.file)[r.file].visibility
    IN  /\ r.pc = "recompute"
        /\ IF visibility = files[r.file].visibility
           THEN /\ workers' = [workers EXCEPT ![w] = NoGrantWrite]
                /\ last' = Done(r.op, TRUE)
           ELSE /\ workers' = [workers EXCEPT ![w].pc = "save", ![w].visibility = visibility]
                /\ UNCHANGED last
        /\ UNCHANGED <<files, perms, now, storage>>

\* self.save(update_fields=['visibility']) of update_visibility_from_sharing
SaveVisibility(w) ==
    LET r == workers[w]
    IN  /\ r.pc = "save"
        /\ files' = [files EXCEPT ![r.file].visibility = r.visibility]
        /\ workers' = [workers EXCEPT ![w] = NoGrantWrite]
        /\ last' = Done(r.op, TRUE)
        /\ UNCHANGED <<perms, now, storage>>

NextRecompute ==
    \/ \E w \in Workers, f \in DOMAIN files, target \in Targets :
          \E t \in GrantTypes(target[1]) : InsertGrant(w, f, target[1], target[2], t)
    \/ \E w \in Workers, p \in perms : DeactivateGrant(w, "alice", p)
    \/ \E w \in Workers : ReadSharing(w)
    \/ \E w \in Workers : SaveVisibility(w)

SpecRecompute == InitRecompute /\ [][NextRecompute]_vars

---------------------------------------------------------------------------
(* SpecMove: moves to any destination, the moved directory itself and the  *)
(* directories below it included, by the owner and by a reader             *)

InitMove ==
    /\ files = (1 :> [FileItem("directory", NoParent, "alice", "private", {}, {})
                      EXCEPT !.name = "a"]
                @@ 2 :> [FileItem("directory", 1, "alice", "user", {}, {})
                         EXCEPT !.name = "a"])
    /\ perms = {FileAccessPermission(1, 2, "bob", None, "read", NoExpiry, TRUE)}
    /\ now = 1
    /\ storage = {}
    /\ last = NoCall
    /\ workers = <<>>

NextMove ==
    \/ \E actor \in Actors, f \in DOMAIN files, destination_id \in {NoParent} \cup DOMAIN files :
          /\ generate_unique_name(files, files[f].name, destination_id, 0) \in AllNames
          /\ move(actor, f, destination_id)
    \/ \E name \in Names, parent_id \in DOMAIN files :
          create_directory("alice", name, parent_id, "private")
    \/ \E f \in DOMAIN files : soft_delete("alice", f)
    \/ \E f \in DOMAIN files : restore("alice", f)

SpecMove == InitMove /\ [][NextMove]_vars

---------------------------------------------------------------------------
(* The listings of FileItemViewSet *)

\* The permission filter list_children and _get_orphaned_shared_items apply
\* for a user who is not a superuser: the Q expression of get_queryset
accessible_items(fs, ps, user) ==
    {f \in objects(fs) :
        \/ fs[f].owner = user
        \/ fs[f].visibility = "public"
        \/ (fs[f].visibility = "user" /\ user \in fs[f].shared_users)
        \/ (fs[f].visibility = "group" /\ fs[f].shared_groups \cap user_groups(user) # {})
        \/ \E p \in ps : p.file = f /\ p.user = user /\ p.is_active
        \/ \E p \in ps : p.file = f /\ p.group \in user_groups(user) /\ p.is_active}

\* _get_orphaned_shared_items(user): the sets it can return, the accessible
\* items below a parent the user cannot read
get_orphaned_shared_items(fs, ps, current_time, user) ==
    IF is_superuser(user) THEN {{}}
    ELSE LET non_root_items == {f \in accessible_items(fs, ps, user) : fs[f].parent # NoParent}
             surely == {f \in non_root_items :
                          can_access(fs, ps, current_time, fs[f].parent, user, "read") = {FALSE}}
             maybe == {f \in non_root_items :
                          FALSE \in can_access(fs, ps, current_time, fs[f].parent, user, "read")}
         IN  {surely \cup some : some \in SUBSET (maybe \ surely)}

\* list_children with ?parent_id=: the sets of children the response can
\* carry; none when the request is refused
list_children_of(fs, ps, current_time, user, parent_id) ==
    IF parent_id \notin objects(fs) THEN {}
    ELSE IF fs[parent_id].item_type # "directory" THEN {}
    ELSE IF TRUE \notin can_access(fs, ps, current_time, parent_id, user, "read") THEN {}
    ELSE IF ~is_authenticated(user) THEN {}
    ELSE LET children == {c \in objects(fs) : fs[c].parent = parent_id}
         IN  IF is_superuser(user) THEN {children}
             ELSE {children \cap accessible_items(fs, ps, user)}

\* list_children without parent_id: the top-level items and the orphaned
\* shared items
list_children_of_root(fs, ps, current_time, user) ==
    IF ~is_authenticated(user) THEN {}
    ELSE LET children == {c \in objects(fs) : fs[c].parent = NoParent}
             visible == IF is_superuser(user) THEN children
                        ELSE children \cap accessible_items(fs, ps, user)
         IN  {visible \cup orphaned :
                 orphaned \in get_orphaned_shared_items(fs, ps, current_time, user)}

\* The sets of items list_children can return
list_children(fs, ps, current_time, user, parent_id) ==
    IF parent_id = NoParent
    THEN list_children_of_root(fs, ps, current_time, user)
    ELSE list_children_of(fs, ps, current_time, user, parent_id)

---------------------------------------------------------------------------
(* Properties of the resolver (C1 - C6, C8) *)

\* Grants of file f to the user himself that are valid at current_time
ValidUserGrants(ps, f, user, current_time) ==
    {p \in ps : p.file = f /\ p.user = user /\ p.group = None
                /\ is_valid(p, current_time)}

\* Grants of file f to one of the user's groups that are valid at current_time
ValidGroupGrants(ps, f, user, current_time) ==
    {p \in ps : p.file = f /\ p.group \in user_groups(user) /\ p.user = None
                /\ is_valid(p, current_time)}

HighestPriority(rows) == {p \in rows : \A q \in rows : q.priority <= p.priority}

\* The expansion table of section 4.2
ExpandedPermissions(permission_type) ==
    CASE permission_type = "admin"  -> {"read", "write", "delete", "share", "admin"}
      [] permission_type = "delete" -> {"read", "write", "delete"}
      [] permission_type = "write"  -> {"read", "write"}
      [] permission_type = "share"  -> {"read", "share"}
      [] permission_type = "read"   -> {"read"}

\* What the visibility fallback of section 4.4 step 6 gives
VisibilityFallback(item, user) ==
    CASE item.visibility = "public"  -> TRUE
      [] item.visibility = "user"    -> user \in item.shared_users
      [] item.visibility = "group"   -> user_groups(user) \cap item.shared_groups # {}
      [] item.visibility = "private" -> FALSE

\* The last call was made by an authenticated principal that is neither a
\* superuser nor the owner of the item
OrdinaryCaller ==
    /\ is_authenticated(last.actor)
    /\ ~is_superuser(last.actor)
    /\ files[last.file].owner # last.actor

\* C1: can_access returns false for every unauthenticated principal whatever
\* the visibility, grants and requested type, and true for every authenticated
\* superuser or owner whatever the grants, their expiry and the visibility.
C1_AnonymousDeniedOwnerAllowed ==
    last.op = "can_access" =>
        /\ ~is_authenticated(last.actor) => ~last.ok
        /\ (is_authenticated(last.actor)
            /\ (is_superuser(last.actor) \/ files[last.file].owner = last.actor))
           => last.ok

\* C1 witness: an unauthenticated principal was refused on a Public item
C1_Witness ==
    /\ last.op = "can_access"
    /\ last.actor = Anonymous
    /\ files[last.file].visibility = "public"
    /\ ~last.ok

\* C2: for an ordinary caller the grant consulted for the user signal is the
\* highest-priority valid user grant and the one consulted for the group
\* signal is the highest-priority valid group grant across the caller's
\* groups, so can_access is true when the expansion of either contains the
\* requested type.
C2_HighestValidGrantDecides ==
    (last.op = "can_access" /\ OrdinaryCaller) =>
        LET userGrant  == HighestPriority(ValidUserGrants(perms, last.file, last.actor, now))
            groupGrant == HighestPriority(ValidGroupGrants(perms, last.file, last.actor, now))
        IN  (\E p \in userGrant \cup groupGrant :
                last.ptype \in ExpandedPermissions(p.permission_type))
            => last.ok

C4_ExpansionIsSingleSourceOfTruth ==
    \A p \in perms :
        /\ get_permission_list(p) = ExpandedPermissions(p.permission_type)
        /\ "read" \in get_permission_list(p)
        /\ is_valid(p, now) =>
               \A t \in PERMISSION_TYPES :
                   has_permission(p, t, now) <=> t \in get_permission_list(p)

\* C4 witness: a valid share grant did not give write
C4_Witness ==
    /\ last.op = "can_access"
    /\ last.actor = "bob"
    /\ last.ptype = "write"
    /\ files[last.file].visibility = "private"
    /\ \E p \in perms : p.user = "bob" /\ p.permission_type = "share" /\ is_valid(p, now)
    /\ ~last.ok

\* C5 as stated: is_valid is true exactly when the grant is active and its
\* expires_at is absent or strictly later than the current time.
C5_ValidIffActiveAndExpiryLater ==
    \A p \in perms :
        is_valid(p, now) <=>
            (p.is_active /\ (p.expires_at = NoExpiry \/ p.expires_at > now))

\* C5 amended: is_valid is true exactly when the grant is active and its
\* expires_at is absent or not earlier than the current time; a grant whose
\* expires_at equals the current time is still valid.
C5_ValidIffActiveAndNotPastExpiry ==
    \A p \in perms :
        is_valid(p, now) <=>
            (p.is_active /\ (p.expires_at = NoExpiry \/ p.expires_at >= now))

\* C5 witness: a grant whose expires_at equals the current time gave access
C5_Witness ==
    /\ last.op = "can_access"
    /\ last.actor = "bob"
    /\ files[last.file].visibility = "private"
    /\ perms # {}
    /\ \A p \in perms : p.user = "bob" /\ p.is_active /\ p.expires_at = now
    /\ last.ptype = "read"
    /\ last.ok

\* C6: get_effective_permissions is the full set for a superuser or the
\* owner, and otherwise the union of the expansions of the selected valid user
\* grant and the selected valid group grant; expired or inactive grants
\* contribute nothing, so every type it reports is one can_access allows.
C6_EffectivePermissionsAreAccessible ==
    last.op = "get_effective_permissions" =>
        IF is_superuser(last.actor) \/ files[last.file].owner = last.actor
        THEN last.listed = PERMISSION_TYPES
        ELSE /\ last.listed =
                    UNION {ExpandedPermissions(p.permission_type) :
                           p \in HighestPriority(ValidUserGrants(perms, last.file, last.actor, now))
                                 \cup HighestPriority(ValidGroupGrants(perms, last.file, last.actor, now))}
             /\ \A t \in last.listed :
                    can_access(files, perms, now, last.file, last.actor, t) = {TRUE}

\* C8: update_visibility_from_sharing is idempotent for every node state, and
\* leaves a Public node Public whatever its grants and shared sets.
C8_RecomputeIdempotent ==
    /\ \A f \in DOMAIN files :
           LET once  == update_visibility_from_sharing(files, perms, f)
               twice == update_visibility_from_sharing(once, perms, f)
           IN  /\ twice = once
               /\ files[f].visibility = "public" => once[f].visibility = "public"
    /\ last.op = "update_visibility_from_sharing" =>
           update_visibility_from_sharing(files, perms, last.file) = files

\* C8 witness: the recompute ran on a Public node that has an active user grant
C8_Witness ==
    /\ last.op = "update_visibility_from_sharing"
    /\ files[last.file].visibility = "public"
    /\ \E p \in perms : p.file = last.file /\ p.user # None /\ p.is_active

---------------------------------------------------------------------------
(* Properties of the grant operations (C7, C10) *)

\* The visibility section 4.5 derives from the grants and the shared sets
DerivedVisibility(fs, ps, f) ==
    IF fs[f].shared_users # {}
       \/ \E p \in ps : p.file = f /\ p.is_active /\ p.user # None
    THEN "user"
    ELSE IF fs[f].shared_groups # {}
            \/ \E p \in ps : p.file = f /\ p.is_active /\ p.group # None
         THEN "group"
         ELSE "private"

\* The operations that change grants or shared sets
GrantOperations ==
    {"create_permission", "revoke_permission", "destroy_permission",
     "share_recursively", "unshare_recursively", "update_visibility",
     "cleanup_expired_permissions"}

\* C7: after every completed operation that changes grants or shared sets
\* (grant, revoke, recursive share and unshare, update of the shared sets,
\* expiry sweep) the stored visibility of every non-Public node is the derived
\* one: UserShared with an active user grant or a non-empty shared_users, else
\* GroupShared with an active group grant or a non-empty shared_groups, else
\* Private.
C7_StoredVisibilityIsDerived ==
    last.op \in GrantOperations =>
        \A f \in objects(files) :
            files[f].visibility # "public"
            => files[f].visibility = DerivedVisibility(files, perms, f)

\* The grant of (f, user, group, permission_type) found a row and left it as
\* the one row of the triple, active and with the requested expiry
Upserted(before, after, f, user, group, permission_type, expires_at) ==
    LET old == existing_permission(before, f, user, group, permission_type)
        new == existing_permission(after, f, user, group, permission_type)
    IN  /\ Cardinality(new) = 1
        /\ \A p \in new : /\ p.is_active
                          /\ p.expires_at = expires_at
                          /\ p.id \in {q.id : q \in old}

\* C10: grant is an idempotent upsert.  A single-node grant of a (node,
\* principal, type) that already has a row, active or revoked, succeeds,
\* updates the expiry and the active flag of that row in place and leaves
\* exactly one active grant for the triple; so does every grant written by a
\* recursive share the caller is allowed to make.
C10_GrantIsIdempotentUpsert ==
    [][/\ \A actor \in Actors, f \in DOMAIN files, target \in Targets, e \in ExpiryChoices :
            \A t \in GrantTypes(target[1]) :
               (/\ create_permission(actor, f, target[1], target[2], t, e)
                /\ existing_permission(perms, f, target[1], target[2], t) # {})
               => /\ last'.ok
                  /\ Upserted(perms, perms', f, target[1], target[2], t, e)
       /\ \A actor \in Actors, f \in DOMAIN files, target \in Targets, e \in ExpiryChoices :
            \A ts \in (SUBSET GrantTypes(target[1])) \ {{}} :
               (/\ share_recursively(actor, f, target[1], target[2], ts, e)
                /\ last'.ok)
               => \A i \in get_recursive_items(files, f), t \in ts :
                      existing_permission(perms, i, target[1], target[2], t) # {}
                      => Upserted(perms, perms', i, target[1], target[2], t, e)
      ]_vars

---------------------------------------------------------------------------
(* Properties of revocation (C11) *)

\* The grants a revocation of permission_types for (user, group) on the items
\* matches; an empty permission_types matches every type
MatchingGrants(ps, items, user, group, permission_types) ==
    {p \in ps :
        /\ p.file \in items
        /\ p.is_active
        /\ p.user = user /\ p.group = group
        /\ permission_types # {} => p.permission_type \in permission_types}

\* Every row of before is still a row of after: the matching ones with
\* is_active = False, the others as they were; no row is added
RevokedInPlace(before, after, matching) ==
    /\ \A p \in before :
           IF p \in matching
           THEN [p EXCEPT !.is_active = FALSE] \in after
           ELSE p \in after
    /\ Cardinality(after) = Cardinality(before)

\* C11: revoking never removes a grant record.  After a revocation every
\* matching grant still exists with is_active = False (all the active grants
\* of the principal when no type is named), and the grants of other
\* principals, other types and other nodes are unchanged.  The revocations
\* are the recursive unshare, the deactivation of one grant and the removal
\* of one grant through the permission endpoint.
C11_RevokeKeepsTheRecord ==
    [][/\ \A actor \in Actors, f \in DOMAIN files, target \in Targets :
            \A ts \in SUBSET GrantTypes(target[1]) :
               (/\ unshare_recursively(actor, f, target[1], target[2], ts)
                /\ last'.ok)
               => RevokedInPlace(perms, perms',
                                 MatchingGrants(perms, get_recursive_items(files, f),
                                                target[1], target[2], ts))
       /\ \A actor \in Actors, p \in perms :
            revoke_permission(actor, p) => RevokedInPlace(perms, perms', {p})
       /\ \A actor \in Actors, p \in perms :
            destroy_permission(actor, p) => RevokedInPlace(perms, perms', {p})
      ]_vars

---------------------------------------------------------------------------
(* Properties of concurrent grants (C9) *)

\* C9: in every reachable state, also those reached by grant and
\* recursive-share requests that run at the same time for the same target,
\* there is at most one active grant for each (node, user, permission type)
\* and at most one for each (node, group, permission type).
C9_OneActiveGrantPerTriple ==
    \A p, q \in perms :
        (/\ p # q
         /\ p.is_active /\ q.is_active
         /\ p.file = q.file
         /\ p.permission_type = q.permission_type)
        => /\ ~(p.user # None /\ p.user = q.user)
           /\ ~(p.group # None /\ p.group = q.group)

\* C9 witness: a worker whose validators found the triple free is about to
\* insert it, and another request has written an active grant for the same
\* triple in the meantime
C9_Witness ==
    \E w \in Workers :
        /\ workers[w].pc = "insert"
        /\ \E p \in perms :
               /\ p.is_active
               /\ p.file = Head(workers[w].todo)[1]
               /\ p.permission_type = Head(workers[w].todo)[2]
               /\ p.user = workers[w].user
               /\ p.group = workers[w].group

---------------------------------------------------------------------------
(* Properties of the tree (C12, C14 - C17) *)

\* Two different rows with the same parent, owner, name and kind
SameSlot(fs, f, g) ==
    /\ f # g
    /\ fs[f].parent = fs[g].parent
    /\ fs[f].owner = fs[g].owner
    /\ fs[f].name = fs[g].name
    /\ fs[f].item_type = fs[g].item_type

\* C12: after any sequence of node creation, upload, move, copy, rename, soft
\* delete and restore no two non-deleted nodes have the same parent, owner,
\* name and kind; an operation that would produce such a pair fails and
\* leaves the tree unchanged.
C12_SiblingNamesUnique ==
    /\ [](\A f, g \in objects(files) : ~SameSlot(files, f, g))
    /\ [][~last'.ok => files' = files]_vars

\* C12 witness: the restore of a node was refused because a non-deleted node
\* has taken its name, parent, owner and kind meanwhile
C12_Witness ==
    /\ last.op = "restore"
    /\ ~last.ok
    /\ \E f \in deleted_only(files), g \in objects(files) : SameSlot(files, f, g)

\* C14: a node is Active, then SoftDeleted, then Active again or
\* HardDeleted: no operation removes the row of a node that is not
\* soft-deleted at that moment, be it the target of the operation or a
\* descendant removed along with its directory.
C14_OnlySoftDeletedNodesAreRemoved ==
    [][\A f \in DOMAIN files : f \notin DOMAIN files' => files[f].is_deleted]_vars

\* C15: while a directory is soft-deleted, neither it nor any of its
\* descendants is in the item list of any user.
C15_DeletedSubtreeIsNotListed ==
    \A d \in deleted_only(files), user \in Users :
        files[d].item_type = "directory"
        => cascade(files, d) \cap get_queryset(files, perms, user) = {}

\* C16: when the hard delete of a directory completes, no row and no storage
\* record of its subtree remains, also for the descendants that are
\* themselves soft-deleted.
C16_HardDeleteRemovesSubtreeAndStorage ==
    [][\A f \in DOMAIN files :
          (/\ hard_delete("alice", f)
           /\ last'.ok
           /\ files[f].item_type = "directory")
          => \A g \in cascade(files, f) :
                 /\ g \notin DOMAIN files'
                 /\ files[g].storage \notin storage'
      ]_vars

\* C17: soft delete followed directly by restore succeeds and gives back the
\* node with is_deleted = False, deleted_at and deleted_by cleared and the
\* name, parent, owner, visibility and shared sets it had; neither of the
\* two operations touches a grant.
C17_RestoreUndoesSoftDelete ==
    /\ [](\A f \in objects(files), user \in Actors :
            LET deleted == [files EXCEPT ![f] = soft_deleted(files[f], now, user)]
            IN  /\ deleted[f].is_deleted
                /\ clean(deleted, f, restored(deleted[f]))
                /\ restored(deleted[f]) = files[f])
    /\ [][last'.op \in {"soft_delete", "restore"} => perms' = perms]_vars

\* C17 witness: a node that was soft-deleted has been restored
C17_Witness ==
    /\ last.op = "restore"
    /\ last.ok

---------------------------------------------------------------------------
(* Properties of copy and of sharing inheritance (C18 - C20) *)

\* can_access as the node's own fields alone decide it: no grant table
OwnFieldsAccess(fs, current_time, f, user, permission_type) ==
    can_access(fs, {}, current_time, f, user, permission_type)

C19_OwnerChildInheritsGroupSharing ==
    \A d \in objects(files) :
        (files[d].item_type = "directory" /\ files[d].visibility = "group") =>
            determine_file_sharing(files, perms, d, "private", {}, {}, files[d].owner)
                = <<"group", {}, files[d].shared_groups>>

\* user can read f through what f is shared by: its visibility and shared
\* sets or a grant, not ownership or superuser status
ReadsThroughSharing(fs, ps, current_time, f, user) ==
    /\ user # fs[f].owner
    /\ ~is_superuser(user)
    /\ can_access(fs, ps, current_time, f, user, "read") = {TRUE}

\* C20: a directory a collaborator creates as private in another user's
\* shared directory can be read by the directory's owner and by everyone who
\* reads the directory through its sharing
C20_CollaboratorChildStaysReadable ==
    [][\A actor \in Actors, name \in Names, d \in DOMAIN files :
          (/\ create_directory(actor, name, d, "private")
           /\ last'.ok
           /\ actor # files[d].owner) =>
              \A user \in Users :
                  (user = files[d].owner \/ ReadsThroughSharing(files, perms, now, d, user)) =>
                      TRUE \in can_access(files', perms', now', NewNode(files), user, "read")]_vars

---------------------------------------------------------------------------
(* Properties of concurrent uploads (C13) *)

\* The two uploads are by the same user, under the same parent, with the same
\* relative path
SamePathRequested(r1, r2) ==
    /\ r1.pc # "idle" /\ r2.pc # "idle"
    /\ r1.user = r2.user
    /\ r1.parent = r2.parent
    /\ r1.path = r2.path
    /\ r1.error # "PermissionDenied"

\* C13: uploads by one user that walk the same relative path under the same
\* parent never leave two non-deleted directories of that user with the same
\* name in the same place, none of them ends in an error of the directory
\* lookup, and those that have walked the path have arrived at the same
\* directory
C13_ConcurrentUploadsShareOnePath ==
    \A w1, w2 \in Workers :
        (w1 # w2 /\ SamePathRequested(workers[w1], workers[w2])) =>
            /\ \A f, g \in objects(files) :
                   (/\ f # g
                    /\ files[f].item_type = "directory"
                    /\ files[f].owner = workers[w1].user) => ~SameSlot(files, f, g)
            /\ workers[w1].error \notin {"MultipleObjectsReturned", "DoesNotExist"}
            /\ (workers[w1].pc \in {"store", "done"} /\ workers[w2].pc \in {"store", "done"})
                   => workers[w1].current_parent = workers[w2].current_parent

---------------------------------------------------------------------------
(* Properties of recursive sharing (C21, C22) *)

\* The non-deleted rows at or below directory f
NonDeletedBelow(fs, f) == cascade(fs, f) \cap objects(fs)

\* The active grants of permission_type on item g to the user or group
ActiveGrants(ps, g, user, group, permission_type) ==
    {p \in ps : /\ p.file = g
                /\ p.user = user
                /\ p.group = group
                /\ p.permission_type = permission_type
                /\ p.is_active}

\* C21: share_recursively writes no grant unless the actor can share the
\* root; when it is carried out the root and every non-deleted row below it
\* hold exactly one active grant of each requested type to the grantee, and
\* the same request once more adds no grant row
C21_ShareRecursivelyCoversSubtree ==
    [][\A actor \in Actors, f \in DOMAIN files, target \in SubtreeTargets :
          share_recursively_within(MaxSubtreeGrants, actor, f, target[1], target[2],
                                   target[3], NoExpiry) =>
              /\ TRUE \notin can_share(files, perms, now, f, actor) => perms' = perms
              /\ ~last'.ok => perms' = perms
              /\ last'.ok =>
                     /\ \A g \in NonDeletedBelow(files, f), t \in target[3] :
                            Cardinality(ActiveGrants(perms', g, target[1], target[2], t)) = 1
                     /\ LET again == share_items([files |-> files', perms |-> perms'],
                                                 get_recursive_items(files', f) \X target[3],
                                                 target[1], target[2], NoExpiry)
                        IN  {p.id : p \in again.perms} = {p.id : p \in perms'}]_vars

\* The grant p is one to the user or group, of one of permission_types (of
\* any type when permission_types is empty)
GrantOf(p, user, group, permission_types) ==
    /\ p.user = user
    /\ p.group = group
    /\ permission_types # {} => p.permission_type \in permission_types

\* C22: after unshare_recursively is carried out no active grant of the given
\* types to the grantee is left on the root or on any row below it, and the
\* grants to others and of other types are as they were
C22_UnshareRecursivelyClearsSubtree ==
    [][\A actor \in Actors, f \in DOMAIN files, target \in SubtreeTargets, ts \in UnshareTypes :
          (unshare_recursively(actor, f, target[1], target[2], ts) /\ last'.ok) =>
              /\ ~\E p \in perms' : /\ p.file \in cascade(files, f)
                                    /\ p.is_active
                                    /\ GrantOf(p, target[1], target[2], ts)
              /\ {p \in perms' : ~GrantOf(p, target[1], target[2], ts)}
                     = {p \in perms : ~GrantOf(p, target[1], target[2], ts)}]_vars

---------------------------------------------------------------------------
(* Properties of the cleanup jobs (C23, C24) *)

\* C23: when the sweep or the purge fails after it has processed pages, what
\* those pages changed is in the table; and no step of a job changes or
\* removes a grant that is not expired (the sweep) or not inactive (the purge)
C23_ProcessedPagesPersist ==
    [][/\ Crash => perms' = workers.tx
       /\ \A p \in perms :
              \/ p \in perms'
              \/ (workers.op = "sweep" /\ p \in expired_permissions(perms, workers.time))
              \/ (workers.op = "purge" /\ ~p.is_active)]_vars

\* C24: a grant row leaves the table only in the purge and only when it has
\* been inactive for the retention window or longer
C24_PurgeOnlyAfterRetention ==
    [][\A p \in perms :
          (~\E q \in perms' : q.id = p.id) =>
              /\ workers.op = "purge"
              /\ ~p.is_active
              /\ now - p.deactivated_at >= RetentionDays]_vars

---------------------------------------------------------------------------
(* Properties of concurrent grant writes (C25) *)

\* C25: once the requests that write grants have all completed, the stored
\* visibility of every item is the one update_visibility_from_sharing derives
\* from the grants and shared sets as they are
C25_VisibilityDerivedAfterConcurrentWrites ==
    (\A w \in Workers : workers[w] = NoGrantWrite) =>
        \A f \in objects(files) : update_visibility_from_sharing(files, perms, f) = files

---------------------------------------------------------------------------
(* Properties of move (C26, C30) *)

\* The row k parent links above f, NoParent beyond the root
RECURSIVE nth_parent(_, _, _)
nth_parent(fs, f, k) ==
    IF f = NoParent \/ f \notin DOMAIN fs THEN NoParent
    ELSE IF k = 0 THEN f
    ELSE nth_parent(fs, fs[f].parent, k - 1)

\* f is its own parent or its own ancestor
OwnAncestor(fs, f) == \E k \in 1..Cardinality(DOMAIN fs) : nth_parent(fs, f, k) = f

\* C26: the parent links form a forest: no node is its own parent or
\* ancestor, and a move of a directory into itself or below itself is refused
\* and leaves the table as it was
C26_ParentLinksFormForest ==
    /\ [](\A f \in DOMAIN files : ~OwnAncestor(files, f))
    /\ [][\A actor \in Actors, f \in DOMAIN files, destination_id \in DOMAIN files :
             (/\ move(actor, f, destination_id)
              /\ \E k \in 0..Cardinality(DOMAIN files) : nth_parent(files, destination_id, k) = f)
                 => (~last'.ok /\ files' = files)]_vars

\* C30: a move changes the parent or the name of a node only for a user who
\* can delete the node and, when the destination is a directory, write to
\* it; a refused move changes nothing, and a move that is carried out leaves
\* owner, visibility, shared sets and grants as they were
C30_MoveNeedsDeleteAndWrite ==
    [][\A actor \in Actors, f \in DOMAIN files, destination_id \in {NoParent} \cup DOMAIN files :
          move(actor, f, destination_id) =>
              /\ (files'[f].parent # files[f].parent \/ files'[f].name # files[f].name) =>
                     /\ TRUE \in can_access(files, perms, now, f, actor, "delete")
                     /\ destination_id # NoParent =>
                            TRUE \in can_access(files, perms, now, destination_id, actor, "write")
              /\ ~last'.ok => files' = files
              /\ /\ files'[f].owner = files[f].owner
                 /\ files'[f].visibility = files[f].visibility
                 /\ files'[f].shared_users = files[f].shared_users
                 /\ files'[f].shared_groups = files[f].shared_groups
                 /\ perms' = perms]_vars

---------------------------------------------------------------------------
(* Properties of granting and of the listings (C27 - C29) *)

\* C27: whoever can use a node with some permission type before a grant is
\* created on the node can still do so after it (the visibility recompute of
\* the grant included)
C27_GrantingIsMonotone ==
    [][\A f \in DOMAIN files, g \in ShareGrants :
          (create_permission("alice", f, g[1], g[2], g[3], NoExpiry) /\ last'.ok) =>
              \A q \in Principals, t \in PERMISSION_TYPES :
                  can_access(files, perms, now, f, q, t) = {TRUE}
                      => TRUE \in can_access(files', perms', now', f, q, t)]_vars


\* C28: every node the item list, the children listing or the root listing
\* returns to a user who is not a superuser can be read by that user; a
\* grant that is active but expired does not list a node
C28_ListedNodesAreReadable ==
    \A user \in Users :
        ~is_superuser(user) =>
            /\ \A f \in get_queryset(files, perms, user) :
                  TRUE \in can_access(files, perms, now, f, user, "read")
            /\ \A parent_id \in {NoParent} \cup DOMAIN files :
                  \A listed \in list_children(files, perms, now, user, parent_id) :
                      \A f \in listed : TRUE \in can_access(files, perms, now, f, user, "read")


\* The request writes an active grant on item g: a new row, or a row it
\* reactivates or updates
GrantWrittenOn(g) == \E p \in perms' : p.file = g /\ p.is_active /\ p \notin perms

\* C29: a grant is created or reactivated on a node only when the acting user
\* has share capability on that node, for a single grant and for every grant
\* share_recursively writes below its root
C29_GrantsNeedShareCapability ==
    [][\A actor \in Actors, f \in DOMAIN files, target \in Targets, e \in ExpiryChoices :
          (\/ \E t \in GrantTypes(target[1]) :
                 create_permission(actor, f, target[1], target[2], t, e)
           \/ \E ts \in (SUBSET GrantTypes(target[1])) \ {{}} :
                 share_recursively(actor, f, target[1], target[2], ts, e))
          => \A g \in DOMAIN files :
                 GrantWrittenOn(g) => TRUE \in can_share(files, perms, now, g, actor)]_vars

====
